---------------------------- MODULE Spec2Model ----------------------------
(***************************************************************************)
(* sniprun: the run/clean dispatcher of src/main.rs, its run units (one    *)
(* thread per "run" event), the shared EventHandler behind Arc<Mutex<..>>, *)
(* and the Rust_original backend of src/interpreters/Rust_original.rs.     *)
(*                                                                         *)
(* Text is a sequence of characters, each character a one-element string;  *)
(* a few fixed words ("fn main() {", "rust", path components) are single   *)
(* elements where the code never looks inside them.                        *)
(***************************************************************************)
EXTENDS Integers, Sequences, FiniteSets, TLC

(* ------------------------------ bounds -------------------------------- *)

\* run units the dispatcher may spawn (run events of one behaviour)
MaxUnits == 2
\* clean and unknown events of one behaviour
MaxOther == 2
\* longest selection / line text of the stand-alone backend checks
MaxLen == 2
\* longest answer of the stand-alone delivery checks
MaxAnswer == 4

Units == 1 .. MaxUnits
\* the guard's holder: nobody, a run unit, or the dispatcher (main thread)
NoUnit == 0
Dispatcher == MaxUnits + 1

(* ------------------------------ text ---------------------------------- *)

\* char::is_whitespace as far as the model's alphabet goes
WhiteSpace == {" ", "\t", "\n", "\r"}

RECURSIVE Remove(_, _)
\* str::replace(chars, ""): drop every character of the set
Remove(s, chars) ==
    IF s = <<>> THEN <<>>
    ELSE IF Head(s) \in chars THEN Remove(Tail(s), chars)
         ELSE <<Head(s)>> \o Remove(Tail(s), chars)

RECURSIVE Replace2(_, _, _, _)
\* str::replace of the two-character pattern <<a, b>> by `to', scanning
\* left to right over non-overlapping matches
Replace2(s, a, b, to) ==
    IF Len(s) < 2 THEN s
    ELSE IF s[1] = a /\ s[2] = b
         THEN to \o Replace2(SubSeq(s, 3, Len(s)), a, b, to)
         ELSE <<s[1]>> \o Replace2(Tail(s), a, b, to)

RECURSIVE Replace1(_, _, _)
\* str::replace of the one-character pattern a by `to'
Replace1(s, a, to) ==
    IF s = <<>> THEN <<>>
    ELSE IF Head(s) = a THEN to \o Replace1(Tail(s), a, to)
         ELSE <<Head(s)>> \o Replace1(Tail(s), a, to)

RECURSIVE TrimEnd(_)
\* str::trim_end
TrimEnd(s) ==
    IF s = <<>> THEN <<>>
    ELSE IF s[Len(s)] \in WhiteSpace THEN TrimEnd(SubSeq(s, 1, Len(s) - 1))
         ELSE s

RECURSIVE Join(_, _)
\* [String]::join(sep)
Join(ls, sep) ==
    IF ls = <<>> THEN <<>>
    ELSE IF Len(ls) = 1 THEN ls[1]
         ELSE ls[1] \o sep \o Join(Tail(ls), sep)

RECURSIVE SplitLast(_, _)
\* str::split(sep).last(): the text after the last separator
SplitLast(s, sep) ==
    IF s = <<>> THEN <<>>
    ELSE IF s[Len(s)] = sep THEN <<>>
         ELSE SplitLast(SubSeq(s, 1, Len(s) - 1), sep) \o <<s[Len(s)]>>

IsPrefix(p, s) == Len(p) <= Len(s) /\ SubSeq(s, 1, Len(p)) = p


RECURSIVE ParentDir(_)
\* the directory a path lies in: the path up to its last "/"
ParentDir(p) ==
    IF p = <<>> THEN <<>>
    ELSE IF p[Len(p)] = "/" THEN SubSeq(p, 1, Len(p) - 1)
         ELSE ParentDir(SubSeq(p, 1, Len(p) - 1))

\* the directories create_dir_all(p) / DirBuilder.recursive(true).create(p)
\* leaves in place: p and each of its ancestors
AllDirs(p) == { SubSeq(p, 1, k) : k \in { j \in 1 .. Len(p) : j = Len(p) \/ p[j + 1] = "/" } }

Ok(v) == [ok |-> TRUE, val |-> v]
Err == [ok |-> FALSE, val |-> <<>>]
ErrInt == [ok |-> FALSE, val |-> 0]

(* --------------------------- DataHolder ------------------------------- *)

\* format!("{}/{}", cache_dir(), "sniprun")
WorkDir == <<"cache", "/", "sniprun">>

\* DataHolder::new(): the almost empty context (its create_dir_all is the
\* caller's file system step)
DataHolder_new ==
    [ filetype         |-> <<>>,
      current_line     |-> <<>>,
      current_bloc     |-> <<>>,
      range            |-> <<-1, -1>>,
      filepath         |-> <<>>,
      work_dir         |-> WorkDir,
      sniprun_root_dir |-> <<>> ]

\* Buffer::get_lines(start, end, strict_indexing = false) of the host:
\* 0-based, end-exclusive, a negative index counts from one past the end,
\* an index out of bounds is clamped
GetLines(buf, start, end) ==
    LET n == Len(buf)
        norm(i) == IF i < 0 THEN n + 1 + i ELSE i
        clamp(i) == IF i < 0 THEN 0 ELSE IF i > n THEN n ELSE i
        s == clamp(norm(start))
        e == clamp(norm(end))
    IN  IF s >= e THEN <<>> ELSE SubSeq(buf, s + 1, e)

\* a fill_data that hands the host its 1-based start line as it is
fill_data_start_not_shifted(d, values, host) ==
    IF ~values.v0.ok \/ ~values.v1.ok
    THEN [data |-> d, panic |-> TRUE]
    ELSE
    LET d1 == [d EXCEPT !.range = <<values.v0.val, values.v1.val>>]
    IN  IF ~values.v2.ok
        THEN [data |-> d1, panic |-> TRUE]
        ELSE
        LET d2 == [d1 EXCEPT !.sniprun_root_dir = values.v2.val]
            d3 == IF host.ft.ok
                  THEN [d2 EXCEPT !.filetype = SplitLast(host.ft.val, "=")]
                  ELSE d2
            d4 == IF host.line.ok
                  THEN [d3 EXCEPT !.current_line = host.line.val]
                  ELSE d3
        IN  IF ~host.buf.ok
            THEN [data |-> d4, panic |-> TRUE]
            ELSE
            LET d5 == IF host.lines_ok
                      THEN [d4 EXCEPT !.current_bloc =
                               Join(GetLines(host.buf.val, d4.range[1], d4.range[2]),
                                    <<"\n">>)]
                      ELSE d4
                d6 == IF host.path.ok
                      THEN [d5 EXCEPT !.filepath = host.path.val]
                      ELSE d5
            IN  [data |-> d6, panic |-> FALSE]

\* a fill_data that takes the plugin's root directory for the working
\* directory too
fill_data_root_as_work_dir(d, values, host) ==
    IF ~values.v0.ok \/ ~values.v1.ok
    THEN [data |-> d, panic |-> TRUE]
    ELSE
    LET d1 == [d EXCEPT !.range = <<values.v0.val, values.v1.val>>]
    IN  IF ~values.v2.ok
        THEN [data |-> d1, panic |-> TRUE]
        ELSE
        LET d2 == [d1 EXCEPT !.sniprun_root_dir = values.v2.val,
                            !.work_dir = values.v2.val]
            d3 == IF host.ft.ok
                  THEN [d2 EXCEPT !.filetype = SplitLast(host.ft.val, "=")]
                  ELSE d2
            d4 == IF host.line.ok
                  THEN [d3 EXCEPT !.current_line = host.line.val]
                  ELSE d3
        IN  IF ~host.buf.ok
            THEN [data |-> d4, panic |-> TRUE]
            ELSE
            LET d5 == IF host.lines_ok
                      THEN [d4 EXCEPT !.current_bloc =
                               Join(GetLines(host.buf.val, d4.range[1] - 1, d4.range[2]),
                                    <<"\n">>)]
                      ELSE d4
                d6 == IF host.path.ok
                      THEN [d5 EXCEPT !.filepath = host.path.val]
                      ELSE d5
            IN  [data |-> d6, panic |-> FALSE]

\* EventHandler::fill_data: the context after the call, and whether one of
\* its unwrap()s panicked on the way (the fields assigned before the panic
\* stay assigned)
fill_data(d, values, host) ==
    IF ~values.v0.ok \/ ~values.v1.ok
    THEN [data |-> d, panic |-> TRUE]
    ELSE
    LET d1 == [d EXCEPT !.range = <<values.v0.val, values.v1.val>>]
    IN  IF ~values.v2.ok
        THEN [data |-> d1, panic |-> TRUE]
        ELSE
        LET d2 == [d1 EXCEPT !.sniprun_root_dir = values.v2.val]
            d3 == IF host.ft.ok
                  THEN [d2 EXCEPT !.filetype = SplitLast(host.ft.val, "=")]
                  ELSE d2
            d4 == IF host.line.ok
                  THEN [d3 EXCEPT !.current_line = host.line.val]
                  ELSE d3
        IN  IF ~host.buf.ok
            THEN [data |-> d4, panic |-> TRUE]
            ELSE
            LET d5 == IF host.lines_ok
                      THEN [d4 EXCEPT !.current_bloc =
                               Join(GetLines(host.buf.val, d4.range[1] - 1, d4.range[2]),
                                    <<"\n">>)]
                      ELSE d4
                d6 == IF host.path.ok
                      THEN [d5 EXCEPT !.filepath = host.path.val]
                      ELSE d5
            IN  [data |-> d6, panic |-> FALSE]

(* --------------------------- SupportLevel ----------------------------- *)

\* the totally ordered enumeration of interpreter.rs
Unsupported == 0
Line == 1
Bloc == 2
File == 3
SupportLevels == {Unsupported, Line, Bloc, File}

(* --------------------------- Rust_original ---------------------------- *)

\* Rust_original::new_with_level: the instance (its directory creation is
\* the caller's file system step)
new_with_level(d, level) ==
    LET rwd == d.work_dir \o <<"/", "rust_original">>
        mfp == rwd \o <<"/", "main", ".", "r", "s">>
        bp  == SubSeq(mfp, 1, Len(mfp) - 3)
    IN  [ support_level  |-> level,
          data           |-> d,
          code           |-> <<>>,
          rust_work_dir  |-> rwd,
          bin_path       |-> bp,
          main_file_path |-> mfp ]

\* Rust_original::get_current_level
get_current_level(i) == i.support_level

\* Rust_original::set_current_level
set_current_level(i, level) == [i EXCEPT !.support_level = level]

\* Rust_original::get_data
get_data(i) == i.data

\* the aliases matched without regard to case
get_supported_languages_anycase ==
    << <<"rust">>, <<"rust-lang">>, <<"rs">>, <<"Rust">> >>

get_supported_languages == << <<"rust">>, <<"rust-lang">>, <<"rs">> >>

get_max_support_level == Bloc

\* a fetch_code that takes the text it stages out of the context
fetch_code_taking_text(i) ==
    IF Remove(i.data.current_bloc, WhiteSpace) # <<>> /\ i.support_level >= Bloc
    THEN [i EXCEPT !.code = i.data.current_bloc, !.data.current_bloc = <<>>]
    ELSE IF Remove(i.data.current_line, {" "}) # <<>> /\ i.support_level >= Line
         THEN [i EXCEPT !.code = i.data.current_line, !.data.current_line = <<>>]
         ELSE [i EXCEPT !.code = <<>>]

\* fetch_code with its two tests in the other order: the line first
fetch_code_line_first(i) ==
    IF Remove(i.data.current_line, {" "}) # <<>>
       /\ i.support_level >= Line
    THEN [i EXCEPT !.code = i.data.current_line]
    ELSE IF Remove(i.data.current_bloc, {" ", "\t", "\n", "\r"}) # <<>>
            /\ i.support_level >= Bloc
         THEN [i EXCEPT !.code = i.data.current_bloc]
         ELSE [i EXCEPT !.code = <<>>]

\* Rust_original::fetch_code: always Ok(()), the instance with its code staged
fetch_code(i) ==
    IF Remove(i.data.current_bloc, {" ", "\t", "\n", "\r"}) # <<>>
       /\ i.support_level >= Bloc
    THEN [i EXCEPT !.code = i.data.current_bloc]
    ELSE IF Remove(i.data.current_line, {" "}) # <<>>
            /\ i.support_level >= Line
         THEN [i EXCEPT !.code = i.data.current_line]
         ELSE [i EXCEPT !.code = <<>>]

\* Rust_original::add_boilerplate
add_boilerplate(i) == [i EXCEPT !.code = <<"fn main() {">> \o i.code \o <<"}">>]

(* ----------------------------- toolchain ------------------------------ *)

\* The user's programs: "a" and "b" are statements printing themselves,
\* "e" is a statement rustc rejects, "x" one that exits non-zero at run time.
Printing == {"a", "b", "\""}

\* rustc's exit status on a source text
Compiles(src) == \A k \in 1 .. Len(src) : src[k] # "e"

\* the artifact's exit status
RunsOk(src) == \A k \in 1 .. Len(src) : src[k] # "x"

\* the artifact's standard output and standard error
ProgramStdout(src) == SelectSeq(src, LAMBDA c : c \in Printing) \o <<"\n">>
ProgramStderr(src) == <<"panicked">>

\* build ignoring rustc's exit status
build_result_always_ok(status_success) ==
    [ok |-> TRUE, kind |-> "Ok", text |-> <<>>]

\* Rust_original::build, after the source file is written: Ok(()) or
\* CompilationError("") from rustc's exit status
build_result(status_success) ==
    IF ~status_success
    THEN [ok |-> FALSE, kind |-> "CompilationError", text |-> <<>>]
    ELSE [ok |-> TRUE, kind |-> "Ok", text |-> <<>>]

\* an execute that returns what the artifact printed whatever its exit
\* status
execute_result_ignoring_status(status_success, stdout, stderr) ==
    [ok |-> TRUE, kind |-> "Ok", text |-> stdout]

\* Rust_original::execute, once the artifact has run
execute_result(status_success, stdout, stderr) ==
    IF status_success
    THEN [ok |-> TRUE, kind |-> "Ok", text |-> stdout]
    ELSE [ok |-> FALSE, kind |-> "RuntimeError", text |-> stderr]

(* ------------------------------ Launcher ------------------------------ *)

\* the Registry's lookup: an exact alias match
Registered(ft) == \E k \in 1 .. Len(get_supported_languages) : get_supported_languages[k] = ft

UnsupportedLanguage(ft) == [ok |-> FALSE, kind |-> "UnsupportedLanguage", text |-> ft]

\* Display of a SniprunError: the kind and the text it carries
Render(e) == <<e.kind>> \o e.text

(* -------------------------- result delivery --------------------------- *)

\* an Ok arm that escapes the quotes without unescaping first
format_answer_escape_only(answer) ==
    LET escaped == Replace1(answer, "\"", <<"\\", "\"">>)
    IN  SubSeq(escaped, 1, Len(TrimEnd(escaped)))

\* main.rs: the Ok arm's escaping and trimming of the answer
format_answer(answer) ==
    LET unescaped == Replace2(answer, "\\", "\"", <<"\"">>)
        escaped   == Replace1(unescaped, "\"", <<"\\", "\"">>)
    IN  SubSeq(escaped, 1, Len(TrimEnd(escaped)))

\* a result match that echoes the text an error carries before reporting it
DeliveryWithPartialOutput(r) ==
    IF r.ok
    THEN << [via |-> "command", text |-> <<"echo ", "\"">> \o format_answer(r.text) \o <<"\"">>] >>
    ELSE << [via |-> "command", text |-> <<"echo ", "\"">> \o format_answer(r.text) \o <<"\"">>],
            [via |-> "err_writeln", text |-> Render(r)] >>

\* main.rs: what the result match sends to the host
Delivery(r) ==
    IF r.ok
    THEN << [via |-> "command", text |-> <<"echo ", "\"">> \o format_answer(r.text) \o <<"\"">>] >>
    ELSE << [via |-> "err_writeln", text |-> Render(r)] >>

(* ------------------------------ the host ------------------------------ *)

\* the buffer the user edits: a printing line, a line rustc rejects, a
\* line that fails at run time
HostBuffer == << <<"a">>, <<"e">>, <<"x">> >>

\* what the host may answer to the queries of one fill_data
HostReplies ==
    { [ ft       |-> Ok(<<" ", "filetype", "=", f>>),
        line     |-> Ok(<<"b">>),
        buf      |-> b,
        lines_ok |-> TRUE,
        path     |-> Ok(<<"/", "f">>) ] :
      f \in { "rust", "Rust" },
      b \in { Ok(HostBuffer), Err } }

\* the argument lists a "run" event may carry
RunValues ==
    { [v0 |-> Ok(r[1]), v1 |-> Ok(r[2]), v2 |-> Ok(<<"root">>)] :
         r \in { <<1, 1>>, <<2, 2>>, <<3, 3>> } }
    \cup { [v0 |-> ErrInt, v1 |-> Ok(1), v2 |-> Ok(<<"root">>)] }


(* ------------------------------- state -------------------------------- *)

VARIABLES
    dpc,        \* the dispatcher: "recv", "cleaning" (inside clean_dir), "crashed"
    spawned,    \* run units spawned so far
    others,     \* clean and unknown events handled so far
    data,       \* EventHandler.data, the shared context
    guard,      \* the holder of the Mutex around the EventHandler
    poisoned,   \* the Mutex is poisoned: a thread panicked holding it
    pc,         \* each run unit's position in its closure
    values,     \* each spawned unit's argument list
    launcher,   \* each unit's Launcher: the context it was constructed with
    instance,   \* each unit's Rust_original instance
    result,     \* each unit's select_and_run result
    dirs,       \* the directories of the file system
    files,      \* the files of the file system: path -> [text, by]
    sent,       \* what each unit sent to the host
    captured,   \* history: the context each unit's own fill_data left
    stages,     \* history: the pipeline stages invoked for each unit
    rustc,      \* history: the exit status of each unit's rustc run
    cause,      \* history: why a unit panicked
    tool,       \* history: the toolchain invocations made for each unit
    event       \* the name of the last event the dispatcher received

vars == << dpc, spawned, others, data, guard, poisoned, pc, values, launcher,
           instance, result, dirs, files, sent, captured, stages, rustc, cause,
           tool, event >>

\* the empty function
Nothing == [x \in {} |-> x]

LogFile == WorkDir \o <<"/", "sniprun.log">>

\* main(): EventHandler::new() has created the cache directory, log_to_file
\* its log file, and the event channel is open
Init ==
    /\ dpc = "recv"
    /\ spawned = 0
    /\ others = 0
    /\ data = DataHolder_new
    /\ guard = NoUnit
    /\ poisoned = FALSE
    /\ pc = [u \in Units |-> "idle"]
    /\ values = Nothing
    /\ launcher = Nothing
    /\ instance = Nothing
    /\ result = Nothing
    /\ dirs = AllDirs(WorkDir)
    /\ files = (LogFile :> [text |-> <<>>, by |-> NoUnit])
    /\ sent = [u \in Units |-> <<>>]
    /\ captured = Nothing
    /\ stages = [u \in Units |-> <<>>]
    /\ rustc = Nothing
    /\ cause = [u \in Units |-> "none"]
    /\ tool = [u \in Units |-> <<>>]
    /\ event = ""

\* std::fs::remove_dir_all(root)
DirsWithout(root) == { d \in dirs : ~IsPrefix(root, d) }
FilesWithout(root) ==
    [ f \in { g \in DOMAIN files : ~IsPrefix(root, g) } |-> files[f] ]

\* a panic of unit u: the thread ends; the other threads go on
Panic(u, why) ==
    /\ pc' = [pc EXCEPT ![u] = "panicked"]
    /\ cause' = [cause EXCEPT ![u] = why]

\* the process lives as long as main() does
Alive == dpc # "crashed"

(* ---------------------------- dispatcher ------------------------------ *)

\* the event names the host sends: the two the plugin knows, and one it
\* does not
EventNames == {"run", "clean", "Run"}

\* impl From<String> for Messages
Messages_from(name) ==
    IF name = "run" THEN "Run"
    ELSE IF name = "clean" THEN "Clean"
    ELSE "Unknown"

\* receiver.recv() hands the loop an event whose name converts to m
Recv(m) ==
    /\ dpc = "recv"
    /\ \E name \in EventNames :
          /\ Messages_from(name) = m
          /\ event' = name

\* Messages::Run: spawn one unit owning the event's values
RecvRun ==
    /\ Recv("Run")
    /\ spawned < MaxUnits
    /\ \E v \in RunValues :
          /\ values' = ((spawned + 1) :> v) @@ values
          /\ pc' = [pc EXCEPT ![spawned + 1] = "capture"]
    /\ spawned' = spawned + 1
    /\ UNCHANGED << dpc, others, data, guard, poisoned, launcher, instance, result,
                    dirs, files, sent, captured, stages, rustc, cause, tool >>

\* Messages::Clean: lock().unwrap(), then clean_dir up to its remove_dir_all
RecvClean ==
    /\ Recv("Clean")
    /\ others < MaxOther
    /\ guard = NoUnit
    /\ others' = others + 1
    /\ IF poisoned
       THEN /\ dpc' = "crashed"
            /\ UNCHANGED << guard, poisoned, dirs, files >>
       ELSE IF data.work_dir \notin dirs
            THEN /\ dpc' = "crashed"
                 /\ poisoned' = TRUE
                 /\ UNCHANGED << guard, dirs, files >>
            ELSE /\ dpc' = "cleaning"
                 /\ guard' = Dispatcher
                 /\ dirs' = DirsWithout(data.work_dir)
                 /\ files' = FilesWithout(data.work_dir)
                 /\ UNCHANGED poisoned
    /\ UNCHANGED << spawned, data, pc, values, launcher, instance, result, sent,
                    captured, stages, rustc, cause, tool >>

\* clean_dir's create_dir_all, and the guard dropped at the end of the arm
CleanCreate ==
    /\ dpc = "cleaning"
    /\ dirs' = dirs \cup AllDirs(data.work_dir)
    /\ guard' = NoUnit
    /\ dpc' = "recv"
    /\ UNCHANGED << spawned, others, data, poisoned, pc, values, launcher, instance,
                    result, files, sent, captured, stages, rustc, cause >>
    /\ UNCHANGED << tool, event >>

\* Messages::Unknown: logged
RecvUnknown ==
    /\ Recv("Unknown")
    /\ others < MaxOther
    /\ others' = others + 1
    /\ UNCHANGED << dpc, spawned, data, guard, poisoned, pc, values, launcher,
                    instance, result, dirs, files, sent, captured, stages, rustc, cause,
                    tool >>

(* ----------------------------- run units ------------------------------ *)

\* where a unit is about to call lock().unwrap(), and where it is once it
\* holds the guard
Locking == [capture |-> "filling", clone |-> "cloning", deliver |-> "delivering", reset |-> "resetting"]

\* cloned_meh.lock().unwrap(): blocks while the guard is held; panics on a
\* poisoned Mutex
Acquire(u) ==
    /\ Alive
    /\ pc[u] \in DOMAIN Locking
    /\ guard = NoUnit
    /\ IF poisoned
       THEN /\ Panic(u, "poison")
            /\ UNCHANGED guard
       ELSE /\ guard' = u
            /\ pc' = [pc EXCEPT ![u] = Locking[pc[u]]]
            /\ UNCHANGED cause
    /\ UNCHANGED << dpc, spawned, others, data, poisoned, values, launcher, instance,
                    result, dirs, files, sent, captured, stages, rustc >>
    /\ UNCHANGED << tool, event >>

\* fill_data(values) under the guard; the guard is dropped at the end of
\* the statement, or by the unwinding of a panic, which poisons the Mutex
FillData(u) ==
    /\ Alive
    /\ pc[u] = "filling"
    /\ \E host \in HostReplies :
          LET r == fill_data(data, values[u], host)
          IN  /\ data' = r.data
              /\ IF r.panic
                 THEN /\ Panic(u, "host")
                      /\ poisoned' = TRUE
                      /\ UNCHANGED captured
                 ELSE /\ pc' = [pc EXCEPT ![u] = "clone"]
                      /\ captured' = (u :> r.data) @@ captured
                      /\ UNCHANGED << poisoned, cause >>
    /\ values' = [v \in DOMAIN values \ {u} |-> values[v]]
    /\ guard' = NoUnit
    /\ UNCHANGED << dpc, spawned, others, launcher, instance, result, dirs,
                    files, sent, stages, rustc >>
    /\ UNCHANGED << tool, event >>

\* the guard after the statement that builds the Launcher: the MutexGuard is
\* a temporary of that statement
GuardAfterCloneHeld(u) == u
GuardAfterClone(u) == NoUnit

\* Launcher::new(cloned_meh.lock().unwrap().data.clone())
CloneData(u) ==
    /\ Alive
    /\ pc[u] = "cloning"
    /\ launcher' = (u :> data) @@ launcher
    /\ guard' = GuardAfterClone(u)
    /\ pc' = [pc EXCEPT ![u] = "select"]
    /\ UNCHANGED << dpc, spawned, others, data, poisoned, values, instance, result,
                    dirs, files, sent, captured, stages, rustc, cause >>
    /\ UNCHANGED << tool, event >>

\* select_and_run: the Registry lookup, and the backend instance built at
\* the backend's maximum level (new_with_level creates its directory)
Select(u) ==
    /\ Alive
    /\ pc[u] = "select"
    /\ IF Registered(launcher[u].filetype)
       THEN LET i == new_with_level(launcher[u], get_max_support_level)
            IN  /\ instance' = (u :> i) @@ instance
                /\ dirs' = dirs \cup AllDirs(i.rust_work_dir)
                /\ pc' = [pc EXCEPT ![u] = "fetch"]
                /\ UNCHANGED result
       ELSE /\ result' = (u :> UnsupportedLanguage(launcher[u].filetype)) @@ result
            /\ pc' = [pc EXCEPT ![u] = "deliver"]
            /\ UNCHANGED << instance, dirs >>
    /\ UNCHANGED << dpc, spawned, others, data, guard, poisoned, values, launcher,
                    files, sent, captured, stages, rustc, cause >>
    /\ UNCHANGED << tool, event >>

\* stage 1
FetchCode(u) ==
    /\ Alive
    /\ pc[u] = "fetch"
    /\ instance' = [instance EXCEPT ![u] = fetch_code(instance[u])]
    /\ stages' = [stages EXCEPT ![u] = Append(@, "fetch_code")]
    /\ pc' = [pc EXCEPT ![u] = "boilerplate"]
    /\ UNCHANGED << dpc, spawned, others, data, guard, poisoned, values, launcher,
                    result, dirs, files, sent, captured, rustc, cause >>
    /\ UNCHANGED << tool, event >>

\* stage 2
AddBoilerplate(u) ==
    /\ Alive
    /\ pc[u] = "boilerplate"
    /\ instance' = [instance EXCEPT ![u] = add_boilerplate(instance[u])]
    /\ stages' = [stages EXCEPT ![u] = Append(@, "add_boilerplate")]
    /\ pc' = [pc EXCEPT ![u] = "build"]
    /\ UNCHANGED << dpc, spawned, others, data, guard, poisoned, values, launcher,
                    result, dirs, files, sent, captured, rustc, cause >>
    /\ UNCHANGED << tool, event >>

\* stage 3, build up to the start of rustc: File::create and write of the
\* staged code, which panic when the directory is gone
BuildWrite(u) ==
    /\ Alive
    /\ pc[u] = "build"
    /\ stages' = [stages EXCEPT ![u] = Append(@, "build")]
    /\ IF ParentDir(instance[u].main_file_path) \in dirs
       THEN /\ files' = (instance[u].main_file_path :> [text |-> instance[u].code, by |-> u])
                           @@ files
            /\ pc' = [pc EXCEPT ![u] = "compile"]
            /\ UNCHANGED cause
       ELSE /\ Panic(u, "fs")
            /\ UNCHANGED files
    /\ UNCHANGED << dpc, spawned, others, data, guard, poisoned, values, launcher,
                    instance, result, dirs, sent, captured, rustc >>
    /\ UNCHANGED << tool, event >>

\* stage 3, rustc -O --out-dir rust_work_dir main_file_path and its exit
\* status: rustc compiles whatever the source file holds by now
BuildCompile(u) ==
    /\ Alive
    /\ pc[u] = "compile"
    /\ LET mfp == instance[u].main_file_path
           ok  == /\ mfp \in DOMAIN files
                  /\ Compiles(files[mfp].text)
                  /\ instance[u].rust_work_dir \in dirs
           src == IF mfp \in DOMAIN files THEN files[mfp]
                  ELSE [text |-> <<>>, by |-> NoUnit]
       IN  /\ rustc' = (u :> ok) @@ rustc
           /\ tool' = [tool EXCEPT ![u] = Append(@, [cmd |-> "rustc", src |-> src, ok |-> ok])]
           /\ files' = IF ok THEN (instance[u].bin_path :> files[mfp]) @@ files ELSE files
           /\ IF build_result(ok).ok
              THEN /\ pc' = [pc EXCEPT ![u] = "execute"]
                   /\ UNCHANGED result
              ELSE /\ result' = (u :> build_result(ok)) @@ result
                   /\ pc' = [pc EXCEPT ![u] = "deliver"]
    /\ UNCHANGED << dpc, spawned, others, data, guard, poisoned, values, launcher,
                    instance, dirs, sent, captured, stages, cause, event >>

\* stage 4: run the artifact at bin_path; Command::output panics when there
\* is none
Execute(u) ==
    /\ Alive
    /\ pc[u] = "execute"
    /\ stages' = [stages EXCEPT ![u] = Append(@, "execute")]
    /\ LET bp == instance[u].bin_path
       IN  IF bp \in DOMAIN files
           THEN /\ result' = (u :> execute_result(RunsOk(files[bp].text),
                                                  ProgramStdout(files[bp].text),
                                                  ProgramStderr(files[bp].text))) @@ result
                /\ tool' = [tool EXCEPT ![u] = Append(@, [cmd |-> "artifact", src |-> files[bp],
                                                           ok |-> RunsOk(files[bp].text)])]
                /\ pc' = [pc EXCEPT ![u] = "deliver"]
                /\ UNCHANGED cause
           ELSE /\ Panic(u, "fs")
                /\ UNCHANGED << result, tool >>
    /\ UNCHANGED << dpc, spawned, others, data, guard, poisoned, values, launcher,
                    instance, dirs, files, sent, captured, rustc, event >>

\* a toolchain invocation (rustc, or the artifact) that never returns
Hang(u) ==
    /\ Alive
    /\ pc[u] \in {"compile", "execute"}
    /\ pc' = [pc EXCEPT ![u] = "hung"]
    /\ UNCHANGED << dpc, spawned, others, data, guard, poisoned, values, launcher,
                    instance, result, dirs, files, sent, captured, stages, rustc, cause >>
    /\ UNCHANGED << tool, event >>

\* the result match: nvim.command(echo ..) or nvim.err_writeln(..) under
\* the guard, which the statement drops
Deliver(u) ==
    /\ Alive
    /\ pc[u] = "delivering"
    /\ sent' = [sent EXCEPT ![u] = @ \o Delivery(result[u])]
    /\ guard' = NoUnit
    /\ pc' = [pc EXCEPT ![u] = "new"]
    /\ UNCHANGED << dpc, spawned, others, data, poisoned, values, launcher, instance,
                    result, dirs, files, captured, stages, rustc, cause >>
    /\ UNCHANGED << tool, event >>

\* DataHolder::new(), the right-hand side of the reset, evaluated before
\* the lock is taken: its create_dir_all
NewData(u) ==
    /\ Alive
    /\ pc[u] = "new"
    /\ dirs' = dirs \cup AllDirs(WorkDir)
    /\ pc' = [pc EXCEPT ![u] = "reset"]
    /\ UNCHANGED << dpc, spawned, others, data, guard, poisoned, values, launcher,
                    instance, result, files, sent, captured, stages, rustc, cause >>
    /\ UNCHANGED << tool, event >>

\* cloned_meh.lock().unwrap().data = DataHolder::new(), and the closure ends
Reset(u) ==
    /\ Alive
    /\ pc[u] = "resetting"
    /\ data' = DataHolder_new
    /\ guard' = NoUnit
    /\ pc' = [pc EXCEPT ![u] = "done"]
    /\ UNCHANGED << dpc, spawned, others, poisoned, values, launcher, instance,
                    result, dirs, files, sent, captured, stages, rustc, cause >>
    /\ UNCHANGED << tool, event >>

Next ==
    \/ RecvRun
    \/ RecvClean
    \/ CleanCreate
    \/ RecvUnknown
    \/ \E u \in Units :
          \/ Acquire(u)
          \/ FillData(u)
          \/ CloneData(u)
          \/ Select(u)
          \/ FetchCode(u)
          \/ AddBoilerplate(u)
          \/ BuildWrite(u)
          \/ BuildCompile(u)
          \/ Execute(u)
          \/ Hang(u)
          \/ Deliver(u)
          \/ NewData(u)
          \/ Reset(u)

Spec == Init /\ [][Next]_vars

(* ------------------- a backend instance on its own -------------------- *)

Alphabet == {"a", " ", "\t", "\n"}

\* the texts of at most MaxLen characters
Texts == UNION { [1 .. n -> Alphabet] : n \in 0 .. MaxLen }

\* unit 1 holds an instance built by new_with_level from any context and at
\* any level, about to run its stages
FetchInit ==
    /\ dpc = "recv"
    /\ spawned = 1
    /\ others = 0
    /\ data = DataHolder_new
    /\ guard = NoUnit
    /\ poisoned = FALSE
    /\ pc = [u \in Units |-> IF u = 1 THEN "fetch" ELSE "idle"]
    /\ values = Nothing
    /\ \E bloc \in Texts, line \in Texts, level \in SupportLevels :
          LET d == [DataHolder_new EXCEPT !.filetype = <<"rust">>,
                                          !.current_bloc = bloc,
                                          !.current_line = line]
          IN  /\ launcher = (1 :> d)
              /\ captured = (1 :> d)
              /\ instance = (1 :> new_with_level(d, level))
    /\ result = Nothing
    /\ dirs = AllDirs(WorkDir \o <<"/", "rust_original">>)
    /\ files = (LogFile :> [text |-> <<>>, by |-> NoUnit])
    /\ sent = [u \in Units |-> <<>>]
    /\ stages = [u \in Units |-> <<>>]
    /\ rustc = Nothing
    /\ cause = [u \in Units |-> "none"]
    /\ tool = [u \in Units |-> <<>>]
    /\ event = ""

\* set_current_level on the instance before its stages run
SetCurrentLevel(u, level) ==
    /\ pc[u] = "fetch"
    /\ instance' = [instance EXCEPT ![u] = set_current_level(instance[u], level)]
    /\ UNCHANGED << dpc, spawned, others, data, guard, poisoned, pc, values, launcher,
                    result, dirs, files, sent, captured, stages, rustc, cause,
                    tool, event >>

FetchNext ==
    \/ \E level \in SupportLevels : SetCurrentLevel(1, level)
    \/ FetchCode(1)
    \/ AddBoilerplate(1)
    \/ BuildWrite(1)
    \/ BuildCompile(1)
    \/ Execute(1)

FetchSpec == FetchInit /\ [][FetchNext]_vars

(* --------------------------- capture on its own ----------------------- *)

\* the line bounds a run event may carry: inside the buffer and around it
CaptureValues ==
    { [v0 |-> Ok(s), v1 |-> Ok(e), v2 |-> Ok(<<"root">>)] :
         s \in 0 .. Len(HostBuffer) + 1, e \in 0 .. Len(HostBuffer) + 1 }

\* unit 1 has been spawned with any line bounds, about to lock for fill_data
CaptureInit ==
    /\ dpc = "recv"
    /\ spawned = 1
    /\ others = 0
    /\ data = DataHolder_new
    /\ guard = NoUnit
    /\ poisoned = FALSE
    /\ pc = [u \in Units |-> IF u = 1 THEN "capture" ELSE "idle"]
    /\ \E v \in CaptureValues : values = (1 :> v)
    /\ launcher = Nothing
    /\ captured = Nothing
    /\ instance = Nothing
    /\ result = Nothing
    /\ dirs = AllDirs(WorkDir)
    /\ files = (LogFile :> [text |-> <<>>, by |-> NoUnit])
    /\ sent = [u \in Units |-> <<>>]
    /\ stages = [u \in Units |-> <<>>]
    /\ rustc = Nothing
    /\ cause = [u \in Units |-> "none"]
    /\ tool = [u \in Units |-> <<>>]
    /\ event = "run"

CaptureNext == Acquire(1) \/ FillData(1) \/ CloneData(1)

CaptureSpec == CaptureInit /\ [][CaptureNext]_vars

(* ----------------------- result delivery on its own ------------------- *)

\* the characters of an answer: a letter, the quote, the backslash, blanks
AnswerAlphabet == {"a", "\"", "\\", " ", "\n"}

\* the answers of at most MaxAnswer characters
Answers == UNION { [1 .. n -> AnswerAlphabet] : n \in 0 .. MaxAnswer }

\* unit 1 is back from select_and_run with any answer, about to deliver it
FormatInit ==
    /\ dpc = "recv"
    /\ spawned = 1
    /\ others = 0
    /\ data = DataHolder_new
    /\ guard = NoUnit
    /\ poisoned = FALSE
    /\ pc = [u \in Units |-> IF u = 1 THEN "deliver" ELSE "idle"]
    /\ values = Nothing
    /\ launcher = (1 :> DataHolder_new)
    /\ captured = (1 :> DataHolder_new)
    /\ instance = Nothing
    /\ \E answer \in Answers : result = (1 :> execute_result(TRUE, answer, <<>>))
    /\ dirs = AllDirs(WorkDir \o <<"/", "rust_original">>)
    /\ files = (LogFile :> [text |-> <<>>, by |-> NoUnit])
    /\ sent = [u \in Units |-> <<>>]
    /\ stages = [u \in Units |-> <<>>]
    /\ rustc = Nothing
    /\ cause = [u \in Units |-> "none"]
    /\ tool = [u \in Units |-> <<>>]
    /\ event = ""

FormatNext == Acquire(1) \/ Deliver(1) \/ NewData(1) \/ Reset(1)

FormatSpec == FormatInit /\ [][FormatNext]_vars

(* ------------------------------ claims -------------------------------- *)

\* the unit is inside select_and_run with a backend instance
InPipeline(u) == pc[u] \in {"fetch", "boilerplate", "build", "compile", "execute", "hung"}

\* the unit is inside select_and_run
InSelectAndRun(u) == pc[u] = "select" \/ InPipeline(u)

\* the thread of the unit has ended
Terminated(u) == pc[u] \in {"done", "panicked"}

\* C1: two run units on the same backend whose executions overlap have
\* distinct working subdirectories (hence distinct source and artifact paths).
C1_DistinctWorkDirs ==
    \A u, v \in DOMAIN instance :
        (u # v /\ InPipeline(u) /\ InPipeline(v))
            => /\ instance[u].rust_work_dir # instance[v].rust_work_dir
               /\ instance[u].main_file_path # instance[v].main_file_path
               /\ instance[u].bin_path # instance[v].bin_path

\* C2: the context a unit's Launcher is constructed with is the context
\* that unit's own fill_data captured.
C2_LauncherGetsOwnCapture ==
    \A u \in DOMAIN launcher : launcher[u] = captured[u]

\* C3: a unit holds the shared-session guard only inside its capture, its
\* clone, its delivery and its reset; never while it is inside
\* select_and_run, and never while it hangs in a toolchain invocation.
C3_GuardNotHeldInPipeline ==
    \A u \in Units :
        /\ guard = u => pc[u] \in {"filling", "cloning", "delivering", "resetting"}
        /\ InSelectAndRun(u) => guard # u

\* C3 witness: a unit hangs in its toolchain invocation while another unit
\* holds the guard for its reset.
C3_Witness ==
    \E u, v \in Units : pc[u] = "hung" /\ guard = v /\ pc[v] = "resetting"

\* C4: a fault that ends one run unit never ends the dispatcher, and never
\* ends another unit.
C4_FaultsContained ==
    /\ dpc # "crashed"
    /\ \A u \in Units : cause[u] # "poison"

\* the four stages in the Launcher's order
StageOrder == <<"fetch_code", "add_boilerplate", "build", "execute">>

\* C5: the stages of one instance run in the order fetch_code,
\* add_boilerplate, build, execute, each at most once; when rustc exits
\* non-zero the pipeline ends at build, execute is never invoked, and
\* CompilationError is the result handed back and the only thing reported.
C5_StagesInOrder ==
    \A u \in Units :
        /\ Len(stages[u]) <= Len(StageOrder)
        /\ stages[u] = SubSeq(StageOrder, 1, Len(stages[u]))
        /\ (u \in DOMAIN rustc /\ ~rustc[u])
              => /\ stages[u] = <<"fetch_code", "add_boilerplate", "build">>
                 /\ u \in DOMAIN result
                 /\ result[u] = [ok |-> FALSE, kind |-> "CompilationError", text |-> <<>>]
                 /\ \A k \in 1 .. Len(sent[u]) :
                       sent[u][k] = [via |-> "err_writeln", text |-> <<"CompilationError">>]

\* C5 witness: a unit whose rustc run failed has reported and finished.
C5_Witness ==
    \E u \in DOMAIN rustc :
        /\ ~rustc[u]
        /\ pc[u] = "done"
        /\ sent[u] = << [via |-> "err_writeln", text |-> <<"CompilationError">>] >>

\* C6: for a filetype that is not exactly rust, rust-lang or rs,
\* select_and_run returns UnsupportedLanguage naming the filetype, no
\* backend instance is built, no stage runs, and what the unit sends to the
\* host is that error.
C6_UnsupportedLanguage ==
    \A u \in DOMAIN launcher :
        (/\ launcher[u].filetype \notin { <<"rust">>, <<"rust-lang">>, <<"rs">> }
         /\ pc[u] # "select")
            => /\ u \in DOMAIN result
               /\ result[u] = [ok |-> FALSE, kind |-> "UnsupportedLanguage",
                               text |-> launcher[u].filetype]
               /\ u \notin DOMAIN instance
               /\ stages[u] = <<>>
               /\ \A k \in 1 .. Len(sent[u]) :
                     sent[u][k] = [via |-> "err_writeln",
                                   text |-> <<"UnsupportedLanguage">> \o launcher[u].filetype]

\* C6 witness: a unit run on filetype Rust has reported the error and finished.
C6_Witness ==
    \E u \in DOMAIN launcher :
        /\ launcher[u].filetype = <<"Rust">>
        /\ pc[u] = "done"
        /\ sent[u] = << [via |-> "err_writeln", text |-> <<"UnsupportedLanguage", "Rust">>] >>

\* C8: every unit sends the host at most one message: the echo when
\* select_and_run returned output, the error report when it returned an
\* error, never both.
C8_OneMessage ==
    \A u \in Units :
        /\ Len(sent[u]) <= 1
        /\ sent[u] # <<>> =>
              /\ u \in DOMAIN result
              /\ result[u].ok => \A k \in 1 .. Len(sent[u]) : sent[u][k].via = "command"
              /\ ~result[u].ok => \A k \in 1 .. Len(sent[u]) : sent[u][k].via = "err_writeln"

\* C8 witness: one unit has echoed its output and another has reported its
\* error.
C8_Witness ==
    \E u, v \in DOMAIN result :
        /\ result[u].ok /\ Len(sent[u]) = 1
        /\ ~result[v].ok /\ Len(sent[v]) = 1

\* C9: a run unit terminates only after its reset, having captured, run
\* the pipeline and delivered exactly once.
C9_TerminatesAfterDeliveryAndReset ==
    \A u \in Units :
        Terminated(u) => /\ pc[u] = "done"
                         /\ Len(sent[u]) = 1

\* C10: whenever every spawned run unit has terminated, the shared context
\* is the empty one.
C10_ContextEmptyWhenQuiet ==
    (\A u \in Units : pc[u] = "idle" \/ Terminated(u)) => data = DataHolder_new

\* the instance of unit 1 once fetch_code has run on it
Fetched == pc[1] \in {"boilerplate", "build"} /\ stages[1][1] = "fetch_code"

\* the code fetch_code staged, as add_boilerplate found it
StagedCode ==
    IF pc[1] = "build"
    THEN SubSeq(instance[1].code, 2, Len(instance[1].code) - 1)
    ELSE instance[1].code

\* C7 as stated: with a non-empty selection and a non-empty line, level
\* block or higher stages the selection and level line stages the line.
C7_MostSpecificNonEmpty ==
    Fetched =>
        LET i == instance[1]
        IN  (i.data.current_bloc # <<>> /\ i.data.current_line # <<>>)
               => /\ i.support_level >= Bloc => StagedCode = i.data.current_bloc
                  /\ i.support_level = Line => StagedCode = i.data.current_line

\* C7 amended: with a selection and a line that are both non-empty after
\* whitespace stripping, level block or higher stages the selection and
\* level line stages the line.
C7_MostSpecificStripped ==
    Fetched =>
        LET i == instance[1]
        IN  (/\ Remove(i.data.current_bloc, WhiteSpace) # <<>>
             /\ Remove(i.data.current_line, WhiteSpace) # <<>>)
               => /\ i.support_level >= Bloc => StagedCode = i.data.current_bloc
                  /\ i.support_level = Line => StagedCode = i.data.current_line

\* C7 witness: at level block, a selection and a different line, both with
\* content, and the selection staged.
C7_Witness ==
    /\ Fetched
    /\ instance[1].support_level = Bloc
    /\ Remove(instance[1].data.current_bloc, WhiteSpace) # <<>>
    /\ Remove(instance[1].data.current_line, WhiteSpace) # <<>>
    /\ instance[1].data.current_bloc # instance[1].data.current_line
    /\ StagedCode = instance[1].data.current_bloc

\* no run unit is in flight
NoUnitInFlight == \A u \in Units : pc[u] = "idle" \/ Terminated(u)

\* the working directory is present and holds nothing
WorkDirEmpty ==
    /\ WorkDir \in dirs
    /\ \A d \in dirs : IsPrefix(WorkDir, d) => d = WorkDir
    /\ \A f \in DOMAIN files : ~IsPrefix(WorkDir, f)

\* the dispatcher's step ends its handling of a clean event
CleanHandled ==
    \/ dpc = "cleaning" /\ dpc' = "recv"
    \/ dpc = "recv" /\ dpc' = "crashed"

\* C11: once no run unit is in flight, every clean event, after any
\* sequence of run and clean events and also right after another clean,
\* leaves the working directory present and empty.
C11_CleanLeavesEmptyDir ==
    [][ (NoUnitInFlight /\ CleanHandled) => WorkDirEmpty' ]_vars

\* the text unit 1 put between the quotes of its echo command
Delivered ==
    LET t == sent[1][1].text
    IN  SubSeq(t, 3, Len(t) - 1)

RECURSIVE EscapeBare(_)
\* s with a backslash put before every quote that has none before it
EscapeBare(s) ==
    IF s = <<>> THEN <<>>
    ELSE IF Len(s) >= 2 /\ s[1] = "\\" /\ s[2] = "\""
         THEN <<"\\", "\"">> \o EscapeBare(SubSeq(s, 3, Len(s)))
         ELSE IF s[1] = "\""
              THEN <<"\\", "\"">> \o EscapeBare(Tail(s))
              ELSE <<s[1]>> \o EscapeBare(Tail(s))

\* C12: for every successful output, every quote of the delivered text has a
\* backslash before it, put there once: a bare quote gets one, a quote that
\* had one keeps it and gets no second; formatting the delivered text again
\* changes nothing; and trailing whitespace is removed.
C12_QuotesEscapedOnce ==
    (Len(sent[1]) > 0 /\ result[1].ok) =>
        /\ \A k \in 1 .. Len(Delivered) :
              Delivered[k] = "\"" => (k > 1 /\ Delivered[k - 1] = "\\")
        /\ Delivered = TrimEnd(EscapeBare(result[1].text))
        /\ format_answer(Delivered) = Delivered
        /\ (Delivered = <<>> \/ Delivered[Len(Delivered)] \notin WhiteSpace)
        /\ sent[1][1].via = "command"

\* an answer with an escaped quote, a bare quote and a trailing newline was
\* delivered
C12_Witness ==
    /\ Len(sent[1]) > 0
    /\ result[1].text = <<"\\", "\"", "\"", "\n">>
    /\ Delivered = <<"\\", "\"", "\\", "\"">>

\* C13: in every state reachable through new_with_level and
\* set_current_level with any level arguments, the configured level of a
\* backend instance is at most its maximum level.
C13_ConfiguredAtMostMaximum ==
    \A u \in DOMAIN instance :
        get_current_level(instance[u]) <= get_max_support_level

\* C14: whenever the selection is whitespace-only (spaces, tabs, newlines,
\* carriage returns, or empty) and the current line is whitespace-only (a
\* line made only of tabs included), fetch_code stages empty code, at every
\* support level.
C14_WhitespaceOnlyStagesNothing ==
    ( /\ Fetched
      /\ Remove(instance[1].data.current_bloc, WhiteSpace) = <<>>
      /\ Remove(instance[1].data.current_line, WhiteSpace) = <<>> )
        => StagedCode = <<>>

\* the toolchain invocations of kind cmd made for unit u
Invocations(u, cmd) == SelectSeq(tool[u], LAMBDA t : t.cmd = cmd)

\* C15: build returns Ok exactly when the compiler exits with status zero
\* and otherwise a CompilationError whose text is empty; execute returns the
\* artifact's standard output exactly when it exits with status zero and
\* otherwise a RuntimeError carrying exactly its standard error; neither the
\* compiler nor the artifact is run a second time.
C15_ExitStatusDecidesResult ==
    \A u \in Units :
        LET compiled == Invocations(u, "rustc")
            ran      == Invocations(u, "artifact")
        IN  /\ Len(compiled) <= 1
            /\ Len(ran) <= 1
            /\ (Len(ran) = 1) => (Len(compiled) = 1 /\ compiled[1].ok)
            /\ (Len(compiled) = 1 /\ ~compiled[1].ok) =>
                  /\ u \in DOMAIN result
                  /\ result[u] = [ok |-> FALSE, kind |-> "CompilationError", text |-> <<>>]
            /\ (Len(compiled) = 1 /\ compiled[1].ok /\ u \in DOMAIN result) =>
                  Len(ran) = 1
            /\ (Len(ran) = 1 /\ ran[1].ok) =>
                  result[u] = [ok |-> TRUE, kind |-> "Ok",
                               text |-> ProgramStdout(ran[1].src.text)]
            /\ (Len(ran) = 1 /\ ~ran[1].ok) =>
                  result[u] = [ok |-> FALSE, kind |-> "RuntimeError",
                               text |-> ProgramStderr(ran[1].src.text)]

\* one unit's compiler exited with a failure, the other unit's artifact did
C15_Witness ==
    /\ Len(tool[1]) = 1 /\ ~tool[1][1].ok /\ pc[1] = "done"
    /\ Len(tool[2]) = 2 /\ ~tool[2][2].ok /\ pc[2] = "done"
    /\ result[2].text = ProgramStderr(tool[2][2].src.text)

\* the step is the dispatcher's receipt of one event, named event'
Received == spawned' + others' = spawned + others + 1

\* C16: the dispatcher handles each event by its name only: a "run" event
\* spawns exactly one run unit; a "clean" event runs clean_dir on the
\* dispatcher itself and spawns no unit; an event of any other name spawns
\* no unit and leaves the shared context and the working directory
\* unchanged, the dispatcher going on to the next event; and nothing else
\* spawns a unit.
C16_EventsHandledByName ==
    [][ /\ (Received /\ event' = "run") =>
              /\ spawned' = spawned + 1
              /\ pc' = [pc EXCEPT ![spawned + 1] = "capture"]
              /\ dpc' = "recv"
        /\ (Received /\ event' = "clean") =>
              /\ spawned' = spawned
              /\ pc' = pc
              /\ dpc' = "cleaning"
              /\ guard' = Dispatcher
              /\ WorkDir \notin dirs'
        /\ (Received /\ event' \notin {"run", "clean"}) =>
              /\ spawned' = spawned
              /\ pc' = pc
              /\ data' = data
              /\ dirs' = dirs
              /\ files' = files
              /\ dpc' = "recv"
        /\ ~Received => spawned' = spawned
      ]_vars

\* C17: for a run event with inclusive 1-based bounds [s, e],
\* 1 <= s <= e <= the number of buffer lines, the selection fill_data
\* captures is the buffer's lines s .. e (e - s + 1 lines, the host being
\* asked for the 0-based end-exclusive range [s - 1, e)) joined by a
\* newline, and the captured range field is [s, e].
C17_SelectionIsLinesOfRange ==
    [][ \A u \in Units :
          (pc[u] = "filling" /\ pc'[u] = "clone") =>
             LET s == values[u].v0.val
                 e == values[u].v1.val
             IN  (1 <= s /\ s <= e /\ e <= Len(HostBuffer)) =>
                    /\ data'.range = <<s, e>>
                    /\ data'.current_bloc =
                          Join([k \in 1 .. e - s + 1 |-> HostBuffer[s - 1 + k]], <<"\n">>)
                    /\ data'.current_bloc =
                          Join(GetLines(HostBuffer, s - 1, e), <<"\n">>)
                    /\ captured'[u] = data'
      ]_vars

\* unit 1 captured the lines 2 .. 3 of the buffer
C17_Witness ==
    /\ 1 \in DOMAIN captured
    /\ captured[1].range = <<2, 3>>
    /\ captured[1].current_bloc = <<"e", "\n", "x">>

\* the step invokes a pipeline stage on the instance of unit u
StageStep(u) == stages'[u] # stages[u]

\* C18: no pipeline stage changes the context a backend instance holds:
\* get_data returns the same context before and after fetch_code,
\* add_boilerplate, build and execute; and fetch_code always returns Ok,
\* changing only the staged code (support level and working paths stay).
C18_StagesKeepContext ==
    [][ \A u \in Units :
          StageStep(u) =>
             /\ get_data(instance'[u]) = get_data(instance[u])
             /\ get_data(instance'[u]) = launcher[u]
             /\ (stages[u] = <<>>) =>
                   /\ stages'[u] = <<"fetch_code">>
                   /\ instance' = [instance EXCEPT ![u].code = instance'[u].code]
                   /\ pc'[u] = "boilerplate"
                   /\ result' = result
      ]_vars

\* all four stages ran on an instance whose context holds a selection
C18_Witness ==
    /\ stages[1] = StageOrder
    /\ get_data(instance[1]) = launcher[1]
    /\ get_data(instance[1]).current_bloc = <<"a", " ">>
    /\ instance[1].support_level = Bloc

\* C19: the text a run unit echoes on success is the standard output of an
\* artifact compiled from the code this same unit staged and wrote in its
\* own build step, never of code another unit staged; and a unit never
\* reports the compilation failure of another unit's code.
C19_ReportsOwnCode ==
    \A u \in Units :
        /\ (Len(sent[u]) > 0 /\ result[u].ok) =>
              LET ran == Invocations(u, "artifact")
              IN  /\ Len(ran) = 1
                  /\ ran[1].src.by = u
                  /\ ran[1].src.text = instance[u].code
                  /\ result[u].text = ProgramStdout(instance[u].code)
        /\ (u \in DOMAIN result /\ result[u].kind = "CompilationError") =>
              LET compiled == Invocations(u, "rustc")
              IN  compiled[1].src.by \notin Units \ {u}

\* C20: in every reachable state the work_dir of the shared context is the
\* root cache directory chosen at start-up: fill_data, DataHolder::new and
\* clean_dir never change it (nor does any context copied from it differ).
C20_WorkDirNeverChanges ==
    /\ data.work_dir = WorkDir
    /\ \A u \in DOMAIN captured : captured[u].work_dir = WorkDir
    /\ \A u \in DOMAIN launcher : launcher[u].work_dir = WorkDir
    /\ \A u \in DOMAIN instance : get_data(instance[u]).work_dir = WorkDir

\* unit 1 has captured and reset the context, the dispatcher has cleaned,
\* and the context holds what unit 2 captured
C20_Witness ==
    /\ pc[1] = "done"
    /\ event = "clean"
    /\ dpc = "recv"
    /\ 2 \in DOMAIN captured
    /\ data = captured[2]
    /\ data.range = <<2, 2>>
    /\ data.work_dir = WorkDir

=============================================================================
